---- MODULE Spec2Model ----
(***************************************************************************)
(* Model of the coin_transfer Anchor program                               *)
(* (solana-program/programs/coin_transfer/src).                            *)
(*                                                                         *)
(* State: the lamport balance of every account, the ProgramState account   *)
(* at the "program_state" derived address, and a record of the last        *)
(* instruction executed (arguments, result, the balances and ProgramState  *)
(* it started from, and the checks / sub-calls it performed, in order).    *)
(*                                                                         *)
(* Each instruction is one atomic action, as the runtime executes it.      *)
(* Lamport balances are naturals (the supply is far below 2^64, so no      *)
(* balance arithmetic overflows).  The ProgramState counters keep their    *)
(* full 64-bit width: a u64 is four 16-bit limbs, most significant first.  *)
(***************************************************************************)
EXTENDS Integers, Sequences, FiniteSets, TLC

VARIABLES lamports, state, last

vars == <<lamports, state, last>>

----------------------------------------------------------------------------
(* Bounds of the model *)

\* largest initial balance of one account
MaxLamports == 3
\* largest amount a caller passes to transfer_sol
MaxAmount == 4
\* rent-exempt minimum of the ProgramState account, in model lamports
RentExemptMin == 2
\* how many values next to each 64-bit boundary are sampled
EdgeWidth == 2

\* accounts that can sign
Wallets == {"alice", "bob"}
\* the address derived from seeds = [b"program_state"]
PDA == "program_state"
Keys == Wallets \cup {PDA}
\* Pubkey::default()
DefaultPubkey == "default"

----------------------------------------------------------------------------
(* u64 as four 16-bit limbs *)

LimbBase == 2^16
LimbMax == LimbBase - 1

U64_ZERO == <<0, 0, 0, 0>>
U64_ONE == <<0, 0, 0, 1>>
U64_MAX == <<LimbMax, LimbMax, LimbMax, LimbMax>>

\* u64::overflowing_add: the sum modulo 2^64 and the carry out of bit 63
overflowing_add(x, y) ==
    LET s4 == x[4] + y[4]
        s3 == x[3] + y[3] + (s4 \div LimbBase)
        s2 == x[2] + y[2] + (s3 \div LimbBase)
        s1 == x[1] + y[1] + (s2 \div LimbBase)
    IN  [value |-> <<s1 % LimbBase, s2 % LimbBase, s3 % LimbBase, s4 % LimbBase>>,
         overflow |-> (s1 \div LimbBase) = 1]

\* u64::wrapping_add
wrapping_add(x, y) == overflowing_add(x, y).value

\* u64::saturating_add
saturating_add(x, y) ==
    LET r == overflowing_add(x, y)
    IN  IF r.overflow THEN U64_MAX ELSE r.value

----------------------------------------------------------------------------
(* state.rs *)

\* impl Default for ProgramState
ProgramState_default ==
    [authority |-> DefaultPubkey, total_transfers |-> U64_ZERO,
     total_volume |-> U64_ZERO, version |-> 0]

init_keeps_version(self, authority) ==
    [self EXCEPT !.authority = authority,
                 !.total_transfers = U64_ZERO,
                 !.total_volume = U64_ZERO]

\* ProgramState::init
ProgramState_init(self, authority) ==
    [self EXCEPT !.authority = authority,
                 !.total_transfers = U64_ZERO,
                 !.total_volume = U64_ZERO,
                 !.version = 1]

record_transfer_wrapping(self, amount) ==
    [self EXCEPT !.total_transfers = wrapping_add(self.total_transfers, U64_ONE),
                 !.total_volume = wrapping_add(self.total_volume, amount)]

\* ProgramState::record_transfer
record_transfer(self, amount) ==
    [self EXCEPT !.total_transfers = saturating_add(self.total_transfers, U64_ONE),
                 !.total_volume = saturating_add(self.total_volume, amount)]

----------------------------------------------------------------------------
(* The host's system program, as the handlers use it *)

\* system_program::transfer: debit `from`, then credit `to`; it refuses to
\* debit more than `from` holds.  The accounts modelled are ones the system
\* program may debit; fees and the rent rules the runtime applies to a whole
\* transaction are not part of an instruction's result.
system_program_transfer(lam, from, to, amount) ==
    IF amount > lam[from]
    THEN [ok |-> FALSE, err |-> "ResultWithNegativeLamports", lamports |-> lam]
    ELSE LET debited == [lam EXCEPT ![from] = @ - amount]
         IN  [ok |-> TRUE, err |-> "Ok",
              lamports |-> [debited EXCEPT ![to] = @ + amount]]

----------------------------------------------------------------------------
(* instructions.rs *)

Event(kind, from, to, amount) ==
    [kind |-> kind, from |-> from, to |-> to, amount |-> amount]

RequireAmount(amount) == Event("require_amount", "none", "none", amount)
RequireBalance(sender, amount) == Event("require_balance", sender, "none", amount)
CpiTransfer(from, to, amount) == Event("cpi_transfer", from, to, amount)

\* handle_initialize
handle_initialize(data, authority) == ProgramState_init(data, authority)

\* the same constraint written init_if_needed: an existing account is reused
Initialize_accounts_if_needed(lam, st, authority) ==
    LET required == IF lam[PDA] >= RentExemptMin THEN 0
                    ELSE RentExemptMin - lam[PDA]
        funded == system_program_transfer(lam, authority, PDA, required)
    IN  IF st.created
        THEN [ok |-> TRUE, err |-> "Ok", lamports |-> lam, state |-> st]
        ELSE IF funded.ok
             THEN [ok |-> TRUE, err |-> "Ok", lamports |-> funded.lamports,
                   state |-> [created |-> TRUE, data |-> ProgramState_default]]
             ELSE [ok |-> FALSE, err |-> funded.err, lamports |-> lam, state |-> st]

\* #[account(init, payer = authority, space, seeds, bump)] state
Initialize_accounts(lam, st, authority) ==
    IF st.created
    THEN [ok |-> FALSE, err |-> "AccountAlreadyInUse", lamports |-> lam, state |-> st]
    ELSE LET required == IF lam[PDA] >= RentExemptMin THEN 0
                         ELSE RentExemptMin - lam[PDA]
             funded == system_program_transfer(lam, authority, PDA, required)
         IN  IF funded.ok
             THEN [ok |-> TRUE, err |-> "Ok", lamports |-> funded.lamports,
                   state |-> [created |-> TRUE, data |-> ProgramState_default]]
             ELSE [ok |-> FALSE, err |-> funded.err, lamports |-> lam, state |-> st]

\* the handler without its first require!
handle_transfer_sol_no_amount_check(lam, sender, recipient, amount) ==
    LET sender_balance == lam[sender] IN
    IF ~(sender_balance >= amount)
    THEN [result |-> "InsufficientFunds", lamports |-> lam,
          trace |-> <<RequireBalance(sender, amount)>>]
    ELSE LET r == system_program_transfer(lam, sender, recipient, amount)
         IN  [result |-> r.err,
              lamports |-> IF r.ok THEN r.lamports ELSE lam,
              trace |-> <<RequireBalance(sender, amount),
                          CpiTransfer(sender, recipient, amount)>>]

\* the handler without its second require!
handle_transfer_sol_no_balance_check(lam, sender, recipient, amount) ==
    IF ~(amount > 0)
    THEN [result |-> "InvalidAmount", lamports |-> lam,
          trace |-> <<RequireAmount(amount)>>]
    ELSE LET r == system_program_transfer(lam, sender, recipient, amount)
         IN  [result |-> r.err,
              lamports |-> IF r.ok THEN r.lamports ELSE lam,
              trace |-> <<RequireAmount(amount),
                          CpiTransfer(sender, recipient, amount)>>]

\* the handler with sender_balance > amount in its second require!
handle_transfer_sol_strict(lam, sender, recipient, amount) ==
    IF ~(amount > 0)
    THEN [result |-> "InvalidAmount", lamports |-> lam,
          trace |-> <<RequireAmount(amount)>>]
    ELSE LET sender_balance == lam[sender] IN
         IF ~(sender_balance > amount)
         THEN [result |-> "InsufficientFunds", lamports |-> lam,
               trace |-> <<RequireAmount(amount), RequireBalance(sender, amount)>>]
         ELSE LET r == system_program_transfer(lam, sender, recipient, amount)
              IN  [result |-> r.err,
                   lamports |-> IF r.ok THEN r.lamports ELSE lam,
                   trace |-> <<RequireAmount(amount), RequireBalance(sender, amount),
                               CpiTransfer(sender, recipient, amount)>>]

\* the handler with a third require! rejecting a recipient equal to the sender
handle_transfer_sol_recipient_check(lam, sender, recipient, amount) ==
    IF ~(amount > 0)
    THEN [result |-> "InvalidAmount", lamports |-> lam,
          trace |-> <<RequireAmount(amount)>>]
    ELSE LET sender_balance == lam[sender] IN
         IF ~(sender_balance >= amount)
         THEN [result |-> "InsufficientFunds", lamports |-> lam,
               trace |-> <<RequireAmount(amount), RequireBalance(sender, amount)>>]
         ELSE IF sender = recipient
         THEN [result |-> "InvalidRecipient", lamports |-> lam,
               trace |-> <<RequireAmount(amount), RequireBalance(sender, amount)>>]
         ELSE LET r == system_program_transfer(lam, sender, recipient, amount)
              IN  [result |-> r.err,
                   lamports |-> IF r.ok THEN r.lamports ELSE lam,
                   trace |-> <<RequireAmount(amount), RequireBalance(sender, amount),
                               CpiTransfer(sender, recipient, amount)>>]

\* the handler with the sub-call moved above the balance check
handle_transfer_sol_cpi_first(lam, sender, recipient, amount) ==
    IF ~(amount > 0)
    THEN [result |-> "InvalidAmount", lamports |-> lam,
          trace |-> <<RequireAmount(amount)>>]
    ELSE LET r == system_program_transfer(lam, sender, recipient, amount)
             sender_balance == lam[sender]
         IN  IF ~r.ok
             THEN [result |-> r.err, lamports |-> lam,
                   trace |-> <<RequireAmount(amount),
                               CpiTransfer(sender, recipient, amount)>>]
             ELSE IF ~(sender_balance >= amount)
             THEN [result |-> "InsufficientFunds", lamports |-> lam,
                   trace |-> <<RequireAmount(amount),
                               CpiTransfer(sender, recipient, amount),
                               RequireBalance(sender, amount)>>]
             ELSE [result |-> "Ok", lamports |-> r.lamports,
                   trace |-> <<RequireAmount(amount),
                               CpiTransfer(sender, recipient, amount),
                               RequireBalance(sender, amount)>>]

\* handle_transfer_sol
handle_transfer_sol(lam, sender, recipient, amount) ==
    IF ~(amount > 0)
    THEN [result |-> "InvalidAmount", lamports |-> lam,
          trace |-> <<RequireAmount(amount)>>]
    ELSE LET sender_balance == lam[sender] IN
         IF ~(sender_balance >= amount)
         THEN [result |-> "InsufficientFunds", lamports |-> lam,
               trace |-> <<RequireAmount(amount), RequireBalance(sender, amount)>>]
         ELSE LET r == system_program_transfer(lam, sender, recipient, amount)
              IN  [result |-> r.err,
                   lamports |-> IF r.ok THEN r.lamports ELSE lam,
                   trace |-> <<RequireAmount(amount), RequireBalance(sender, amount),
                               CpiTransfer(sender, recipient, amount)>>]

\* a balance query reporting only what exceeds the rent-exempt minimum
handle_get_balance_spendable(lam, account) ==
    IF lam[account] >= RentExemptMin THEN lam[account] - RentExemptMin ELSE 0

\* handle_get_balance
handle_get_balance(lam, account) == lam[account]

----------------------------------------------------------------------------
(* lib.rs: the three instructions *)

Call(op, result, ret, signer, account, amount, trace) ==
    [op |-> op, result |-> result, ret |-> ret, signer |-> signer,
     account |-> account, amount |-> amount,
     pre_lamports |-> lamports, pre_state |-> state, trace |-> trace]

\* coin_transfer::initialize
initialize(authority) ==
    LET c == Initialize_accounts(lamports, state, authority)
    IN  /\ lamports' = c.lamports
        /\ state' = IF c.ok
                    THEN [c.state EXCEPT !.data = handle_initialize(@, authority)]
                    ELSE state
        /\ last' = Call("initialize", c.err, 0, authority, PDA, 0, <<>>)

\* a transfer that also updates the statistics of an initialized ProgramState
transfer_sol_recording(sender, recipient, amount) ==
    LET r == handle_transfer_sol(lamports, sender, recipient, amount)
    IN  /\ lamports' = r.lamports
        /\ state' = IF r.result = "Ok" /\ state.created
                    THEN [state EXCEPT !.data = record_transfer(@, <<0, 0, 0, amount>>)]
                    ELSE state
        /\ last' = Call("transfer_sol", r.result, 0, sender, recipient, amount, r.trace)

\* coin_transfer::transfer_sol
transfer_sol(sender, recipient, amount) ==
    LET r == handle_transfer_sol(lamports, sender, recipient, amount)
    IN  /\ lamports' = r.lamports
        /\ state' = state
        /\ last' = Call("transfer_sol", r.result, 0, sender, recipient, amount, r.trace)

\* coin_transfer::get_balance
get_balance(account) ==
    /\ last' = Call("get_balance", "Ok", handle_get_balance(lamports, account),
                    "none", account, 0, <<>>)
    /\ UNCHANGED <<lamports, state>>

NoCall ==
    [op |-> "none", result |-> "Ok", ret |-> 0, signer |-> "none",
     account |-> "none", amount |-> 0,
     pre_lamports |-> [k \in Keys |-> 0],
     pre_state |-> [created |-> FALSE, data |-> ProgramState_default],
     trace |-> <<>>]

Init ==
    /\ lamports \in [Keys -> 0..MaxLamports]
    /\ state = [created |-> FALSE, data |-> ProgramState_default]
    /\ last = NoCall

Next ==
    \/ \E authority \in Wallets : initialize(authority)
    \/ \E sender \in Wallets, recipient \in Keys, amount \in 0..MaxAmount :
          transfer_sol(sender, recipient, amount)
    \/ \E account \in Keys : get_balance(account)

Spec == Init /\ [][Next]_vars

----------------------------------------------------------------------------
(* record_transfer applied to sampled ProgramStates.  No instruction calls  *)
(* it, so it is exercised on its own: from every initialized ProgramState   *)
(* whose counters lie next to 0, 2^16, 2^32, 2^63 or 2^64, with amounts     *)
(* from the same values.                                                    *)

\* longest run of record_transfer applications explored
MaxRecords == 2

U64Samples ==
    UNION { { <<0, 0, 0, k>>,
              <<0, 0, 0, LimbMax - k>>,
              <<0, 0, LimbMax, LimbMax - k>>,
              <<LimbBase \div 2, 0, 0, k>>,
              <<LimbMax, LimbMax, LimbMax, LimbMax - k>> } : k \in 0..EdgeWidth }

RecordTransfer(amount) ==
    /\ state.created
    /\ Len(last.trace) < MaxRecords
    /\ state' = [state EXCEPT !.data = record_transfer(@, amount)]
    /\ last' = Call("record_transfer", "Ok", 0, "none", PDA, amount,
                    Append(last.trace, Event("record_transfer", "none", "none", amount)))
    /\ UNCHANGED lamports

InitRecord ==
    /\ lamports = [k \in Keys |-> 0]
    /\ \E a \in Wallets, tt \in U64Samples, tv \in U64Samples :
          state = [created |-> TRUE,
                   data |-> [authority |-> a, total_transfers |-> tt,
                             total_volume |-> tv, version |-> 1]]
    /\ last = NoCall

NextRecord == \E amount \in U64Samples : RecordTransfer(amount)

SpecRecord == InitRecord /\ [][NextRecord]_vars

----------------------------------------------------------------------------
(* Helpers of the properties *)

RECURSIVE SumOver(_, _)
SumOver(f, S) ==
    IF S = {} THEN 0
    ELSE LET k == CHOOSE x \in S : TRUE IN f[k] + SumOver(f, S \ {k})

TotalLamports(lam) == SumOver(lam, Keys)

IsTransfer == last.op = "transfer_sol"

\* x < y and x <= y on 64-bit values
U64Lt(x, y) ==
    \E i \in 1..4 : x[i] < y[i] /\ \A j \in 1..(i - 1) : x[j] = y[j]
U64Leq(x, y) == x = y \/ U64Lt(x, y)

\* 2^64 - 1 - x
U64Complement(x) == [i \in 1..4 |-> LimbMax - x[i]]

\* y - x for x <= y, by schoolbook subtraction with borrow
U64Sub(y, x) ==
    LET d4 == y[4] - x[4]
        b4 == IF d4 < 0 THEN 1 ELSE 0
        d3 == y[3] - x[3] - b4
        b3 == IF d3 < 0 THEN 1 ELSE 0
        d2 == y[2] - x[2] - b3
        b2 == IF d2 < 0 THEN 1 ELSE 0
        d1 == y[1] - x[1] - b2
    IN  <<d1, d2 + b2 * LimbBase, d3 + b3 * LimbBase, d4 + b4 * LimbBase>>

\* y = min(x + a, 2^64 - 1): x + a exceeds 2^64 - 1 exactly when
\* a > (2^64 - 1) - x; otherwise y is the value above x at distance a
IsMinOfSumAndMax(y, x, a) ==
    IF U64Lt(U64Complement(x), a)
    THEN y = U64_MAX
    ELSE U64Leq(x, y) /\ U64Sub(y, x) = a

----------------------------------------------------------------------------
(* Properties *)

\* C1: a transfer_sol call with amount = 0 fails with InvalidAmount (never
\* InsufficientFunds), whatever the sender, the recipient and the sender's
\* balance, and no account balance changes.
C1_ZeroAmountRejected ==
    (IsTransfer /\ last.amount = 0) =>
        /\ last.result = "InvalidAmount"
        /\ lamports = last.pre_lamports

\* C1 happens: a sender with balance 0 asked to move 0 lamports.
C1_Witness ==
    /\ IsTransfer /\ last.amount = 0
    /\ last.pre_lamports[last.signer] = 0
    /\ last.result = "InvalidAmount"

\* C2: a transfer_sol call with amount greater than the sender's balance
\* fails with InsufficientFunds and no account balance changes.
C2_InsufficientFundsRejected ==
    (IsTransfer /\ last.amount > last.pre_lamports[last.signer]) =>
        /\ last.result = "InsufficientFunds"
        /\ lamports = last.pre_lamports

\* C2 happens: a funded sender asked for more than it holds.
C2_Witness ==
    /\ IsTransfer
    /\ last.pre_lamports[last.signer] > 0
    /\ last.amount > last.pre_lamports[last.signer]
    /\ last.result = "InsufficientFunds"

\* C3 as stated: a transfer_sol call with 0 < amount <= sender balance
\* succeeds for any sender and any recipient, the sender's balance decreases
\* by exactly amount, the recipient's increases by exactly amount, and the
\* sum of all balances is unchanged.
C3_AnyRecipientMoved ==
    (IsTransfer /\ 0 < last.amount /\ last.amount <= last.pre_lamports[last.signer]) =>
        /\ last.result = "Ok"
        /\ lamports[last.signer] = last.pre_lamports[last.signer] - last.amount
        /\ lamports[last.account] = last.pre_lamports[last.account] + last.amount
        /\ TotalLamports(lamports) = TotalLamports(last.pre_lamports)

\* C3 amended: a transfer_sol call with 0 < amount <= sender balance
\* succeeds and leaves the sum of all balances unchanged; when the recipient
\* is an account other than the sender, the sender's balance decreases by
\* exactly amount, the recipient's increases by exactly amount and no other
\* balance changes; when the recipient is the sender, no balance changes.
C3_TransferMoved ==
    (IsTransfer /\ 0 < last.amount /\ last.amount <= last.pre_lamports[last.signer]) =>
        /\ last.result = "Ok"
        /\ TotalLamports(lamports) = TotalLamports(last.pre_lamports)
        /\ last.account # last.signer =>
              /\ lamports[last.signer] = last.pre_lamports[last.signer] - last.amount
              /\ lamports[last.account] = last.pre_lamports[last.account] + last.amount
              /\ \A k \in Keys \ {last.signer, last.account} :
                    lamports[k] = last.pre_lamports[k]
        /\ last.account = last.signer => lamports = last.pre_lamports

\* C3 happens: a sender moved its entire balance to another account.
C3_Witness ==
    /\ IsTransfer /\ last.result = "Ok"
    /\ last.account # last.signer
    /\ last.amount > 0
    /\ last.amount = last.pre_lamports[last.signer]
    /\ lamports[last.signer] = 0

\* C4: once initialize has succeeded, every later initialize call fails and
\* ProgramState (its authority included) is never changed again, whoever
\* signs the later call.
C4_InitializeOnce ==
    [][state.created =>
          /\ state' = state
          /\ (last'.op = "initialize" => last'.result = "AccountAlreadyInUse")]_vars

\* C4 happens: a second initialize, signed by an account other than the
\* recorded authority, was rejected.
C4_Witness ==
    /\ last.op = "initialize"
    /\ last.pre_state.created
    /\ last.signer # last.pre_state.data.authority
    /\ last.result = "AccountAlreadyInUse"

\* C5: a successful initialize signed by A takes ProgramState from
\* uninitialized to initialized, with authority = A, total_transfers = 0,
\* total_volume = 0 and version = 1.
C5_InitializeEffect ==
    (last.op = "initialize" /\ last.result = "Ok") =>
        /\ ~last.pre_state.created
        /\ state.created
        /\ state.data = [authority |-> last.signer, total_transfers |-> U64_ZERO,
                         total_volume |-> U64_ZERO, version |-> 1]

\* C5 happens: an initialize call succeeded.
C5_Witness ==
    /\ last.op = "initialize" /\ last.result = "Ok"
    /\ state.data.authority \in Wallets

\* C6: get_balance on any account succeeds, returns exactly the account's
\* balance, and leaves every balance and ProgramState unchanged.
C6_GetBalanceReadOnly ==
    (last.op = "get_balance") =>
        /\ last.result = "Ok"
        /\ last.ret = last.pre_lamports[last.account]
        /\ lamports = last.pre_lamports
        /\ state = last.pre_state

\* C6 happens: the balance of the program-owned ProgramState account, which
\* signs nothing, was queried after initialization.
C6_Witness ==
    /\ last.op = "get_balance"
    /\ last.account = PDA
    /\ state.created
    /\ last.ret >= RentExemptMin

\* C7: record_transfer sets total_transfers to min(total_transfers + 1,
\* 2^64 - 1) and total_volume to min(total_volume + amount, 2^64 - 1), so
\* neither counter decreases or wraps, and authority and version are kept.
C7_RecordTransferSaturates ==
    (last.op = "record_transfer") =>
        LET old == last.pre_state.data
            new == state.data
        IN  /\ U64Leq(old.total_transfers, new.total_transfers)
            /\ U64Leq(old.total_volume, new.total_volume)
            /\ IsMinOfSumAndMax(new.total_transfers, old.total_transfers, U64_ONE)
            /\ IsMinOfSumAndMax(new.total_volume, old.total_volume, last.amount)
            /\ new.authority = old.authority
            /\ new.version = old.version

\* C7 happens: total_volume saturated from below 2^64 - 1 while
\* total_transfers advanced by one without saturating.
C7_Witness ==
    /\ last.op = "record_transfer"
    /\ last.pre_state.data.total_volume # U64_MAX
    /\ last.amount # U64_MAX
    /\ state.data.total_volume = U64_MAX
    /\ state.data.total_transfers # U64_MAX
    /\ state.data.total_transfers # last.pre_state.data.total_transfers

TransferError == {"InvalidAmount", "InsufficientFunds", "InvalidRecipient", "Unauthorized"}

\* C9: no instruction returns Unauthorized or InvalidRecipient; the only
\* program errors are InvalidAmount and InsufficientFunds, returned by
\* transfer_sol.
C9_DeclaredErrorsUnused ==
    /\ last.result \notin {"Unauthorized", "InvalidRecipient"}
    /\ last.result \in TransferError =>
          /\ last.result \in {"InvalidAmount", "InsufficientFunds"}
          /\ last.op = "transfer_sol"

\* C9 happens: a transfer from an account to itself passed both checks.
C9_Witness ==
    /\ IsTransfer
    /\ last.account = last.signer
    /\ last.result = "Ok"

CpiPositions(trace) == {i \in 1..Len(trace) : trace[i].kind = "cpi_transfer"}

\* C10: within a transfer_sol call the checks run in order (amount > 0, then
\* balance >= amount) and the first failure ends the call; the host transfer
\* is invoked zero times when a check fails and exactly once, last, with the
\* call's sender, recipient and amount, when both pass.
C10_ChecksPrecedeTransfer ==
    IsTransfer =>
        LET t == last.trace
            balance == last.pre_lamports[last.signer]
        IN  /\ last.amount = 0 => t = <<RequireAmount(last.amount)>>
            /\ (last.amount > 0 /\ balance < last.amount) =>
                  t = <<RequireAmount(last.amount),
                        RequireBalance(last.signer, last.amount)>>
            /\ (last.amount > 0 /\ balance >= last.amount) =>
                  /\ t = <<RequireAmount(last.amount),
                           RequireBalance(last.signer, last.amount),
                           CpiTransfer(last.signer, last.account, last.amount)>>
                  /\ CpiPositions(t) = {Len(t)}
            /\ last.result # "Ok" => CpiPositions(t) = {}

\* C10 happens: a call passed both checks and invoked the host transfer.
C10_Witness ==
    /\ IsTransfer
    /\ CpiPositions(last.trace) = {3}
    /\ last.trace[3].amount = last.amount
    /\ lamports # last.pre_lamports

====
